---- MODULE Spec2Model ----
(***************************************************************************)
(* archdiff: App::run of src/main.rs.  The run loads the package           *)
(* manifest, walks the live tree (untracked files), walks the repository   *)
(* mirror (repo-changed files), checks the remaining manifest entries in   *)
(* parallel (deleted files, changed backup files), sorts the entries by    *)
(* path and prints them.                                                   *)
(*                                                                         *)
(* The file system, the package database and the compiled ignore rules are *)
(* inputs: they are chosen in Init and never change afterwards.            *)
(***************************************************************************)
EXTENDS Naturals, Sequences, FiniteSets, TLC

VARIABLES
    db_files,           \* the database: every path owned by a package
    db_backup,          \* the database: backup path -> recorded hash
    live,               \* live tree: file -> "absent" | "noread" | digest
    repo,               \* mirror tree: file -> "absent" | "noread" | digest
    rules,              \* compiled ignore rules: node -> Match of the node
    live_err,           \* live nodes whose traversal entry is an error
    repo_err,           \* mirror nodes whose traversal entry is an error
    pc,                 \* position inside App::run
    pkg_files,          \* the HashSet pkg_files
    pkg_backup_files,   \* the HashMap pkg_backup_files
    all,                \* the Vec all of (marker, path)
    walk,               \* entries the running WalkDir has still to produce
    par,                \* items the running parallel iterator has still to map
    out,                \* the lines printed on standard output
    result,             \* what run returned: "none" until it returns
    runs,               \* completed runs of the program on this tree
    prev_out            \* the lines the previous run printed

env == <<db_files, db_backup, live, repo, rules, live_err, repo_err>>
vars == <<db_files, db_backup, live, repo, rules, live_err, repo_err,
          pc, pkg_files, pkg_backup_files, all, walk, par, out, result,
          runs, prev_out>>

----------------------------------------------------------------------------
(* Bounds of the model. *)

\* how many times the program is run on the unchanged tree
MaxRuns == 2

----------------------------------------------------------------------------
(* The path universe: one directory with one file, one top-level file. *)

Root == "/"
Dirs == {"d"}
Files == {"d/x", "f"}
Nodes == Dirs \cup Files

\* The nodes in ascending byte order of their relative path.
PathOrder == <<"d", "d/x", "f">>

Parent(n) == IF n = "d/x" THEN "d" ELSE "none"

RECURSIVE Ancestors(_)
Ancestors(n) ==
    IF Parent(n) = "none" THEN {} ELSE {Parent(n)} \cup Ancestors(Parent(n))

Descendants(n) == {m \in Nodes : n \in Ancestors(m)}

\* Everything irregular is placed under d: only nodes of RuleNodes are named
\* by an ignore rule, only files of Unreadable can exist without being
\* readable, only the directories can fail to be listed.
RuleNodes == {"d", "d/x"}
Unreadable == {"d/x"}

Digests == {"h1", "h2"}
\* A mirror file and a recorded backup hash carry the reference digest.
RefDigests == {"h1"}

LiveContent(f) ==
    {"absent"} \cup Digests \cup (IF f \in Unreadable THEN {"noread"} ELSE {})
RepoContent(f) ==
    {"absent"} \cup RefDigests \cup (IF f \in Unreadable THEN {"noread"} ELSE {})
Matches(n) ==
    IF n \in RuleNodes THEN {"None", "Ignore", "Whitelist"} ELSE {"None"}

----------------------------------------------------------------------------
(* Helpers of main.rs and the library calls it makes. *)

\* hash_file: the digest of the content, or an error when the file cannot be
\* opened or read.
hash_file(content) ==
    IF content \in Digests THEN [ok |-> TRUE, hash |-> content]
    ELSE [ok |-> FALSE, hash |-> "none"]

\* a hash_file_logged that hands out the digest of no input after an error
hash_file_logged_default(content) ==
    IF hash_file(content).ok THEN hash_file(content).hash ELSE "h0"

\* hash_file_logged: Some(hash), or None after logging the error.
hash_file_logged(content) ==
    IF hash_file(content).ok THEN hash_file(content).hash ELSE "None"

\* a metadata check with the two arms exchanged
metadata_ok_inverted(p) == live[p] = "absent"

\* std::fs::metadata(root + p) succeeds when something is at the path.
metadata_ok(p) == live[p] # "absent"

\* Gitignore::matched(root + n, is_dir): the rule matching the node itself.
matched(n) == rules[n]

\* an ancestor-inclusive query that looks at the path alone
matched_path_only(n) == rules[n]

\* Gitignore::matched_path_or_any_parents: the match of the path itself or,
\* when there is none, of the nearest parent directory that has one.
RECURSIVE matched_path_or_any_parents(_)
matched_path_or_any_parents(n) ==
    IF matched(n) # "None" THEN matched(n)
    ELSE IF Parent(n) = "none" THEN "None"
    ELSE matched_path_or_any_parents(Parent(n))

\* The predicate given to filter_entry in the live scan.
filter_entry(n) == matched(n) = "None"

\* a filter applied to the entries after the walk: nothing is pruned
skip_entry_only(todo, n) == todo \ {n}

\* An entry the predicate rejects is skipped; a rejected directory is not
\* descended into.
skip_current_dir(todo, n) == todo \ ({n} \cup Descendants(n))

\* a walk that ends at the first error
filter_map_error_abort(todo, n) == {}

\* filter_map(filter_map_error): the error of an entry is logged and dropped,
\* nothing below the entry is produced, the walk goes on with the rest.
filter_map_error(todo, n) == todo \ ({n} \cup Descendants(n))

\* a.cmp(b) on two relative paths, by their place in PathOrder.
Rank(p) == CHOOSE i \in 1..Len(PathOrder) : PathOrder[i] = p
path_le(a, b) == Rank(a) <= Rank(b)

\* a report that leaves the list as the phases filled it
sort_by_skipped(s) == s

\* Vec::sort_by(|(_, a), (_, b)| a.cmp(b)): a stable sort by the path.
RECURSIVE sort_by(_)
sort_by(s) ==
    IF s = <<>> THEN <<>>
    ELSE LET front == sort_by(SubSeq(s, 1, Len(s) - 1))
             e == s[Len(s)]
             k == Cardinality({i \in 1..Len(front) : path_le(front[i][2], e[2])})
         IN SubSeq(front, 1, k) \o <<e>> \o SubSeq(front, k + 1, Len(front))

\* a line without the installation root
println_relative(e) == e[1] \o " " \o e[2]

\* println!("{} {}{}", c, &root, n)
println(e) == e[1] \o " " \o Root \o e[2]

\* The entries WalkDir produces next: a node is produced after its parent.
Ready(todo) == {n \in todo : Parent(n) \notin todo}

\* What each WalkDir has to produce: the directories, and the files present.
LiveNodes == Dirs \cup {f \in Files : live[f] # "absent"}
RepoNodes == Dirs \cup {f \in Files : repo[f] # "absent"}

\* a removal that leaves the map as it is
Remove_Nothing(map, key) == map

Remove(map, key) == [k \in DOMAIN map \ {key} |-> map[k]]

----------------------------------------------------------------------------
(* Initial state: App::new has returned, run has not started. *)

Init ==
    /\ db_files \in SUBSET Files
    /\ \E keys \in SUBSET Files : db_backup \in [keys -> RefDigests]
    /\ live \in {l \in [Files -> Digests \cup {"absent", "noread"}] :
                    \A f \in Files : l[f] \in LiveContent(f)}
    /\ repo \in {r \in [Files -> RefDigests \cup {"absent", "noread"}] :
                    \A f \in Files : r[f] \in RepoContent(f)}
    /\ rules \in {m \in [Nodes -> {"None", "Ignore", "Whitelist"}] :
                     \A n \in Nodes : m[n] \in Matches(n)}
    /\ live_err \in SUBSET Dirs
    /\ repo_err \in SUBSET Dirs
    /\ pc = "load"
    /\ pkg_files = {}
    /\ pkg_backup_files = <<>>
    /\ all = <<>>
    /\ walk = {}
    /\ par = {}
    /\ out = <<>>
    /\ result = "none"
    /\ runs = 0
    /\ prev_out = <<>>

----------------------------------------------------------------------------
(* App::run *)

\* The manifest of every installed package is copied into the two
\* collections; the live walk is created.
Load ==
    /\ pc = "load"
    /\ pkg_files' = db_files
    /\ pkg_backup_files' = db_backup
    /\ all' = <<>>
    /\ out' = <<>>
    /\ result' = "none"
    /\ walk' = LiveNodes
    /\ pc' = "live_scan"
    /\ UNCHANGED <<env, par, runs, prev_out>>

\* One entry of the live walk.
LiveScanEntry(n) ==
    /\ pc = "live_scan"
    /\ n \in Ready(walk)
    /\ IF n \in live_err
       THEN /\ walk' = filter_map_error(walk, n)
            /\ UNCHANGED <<pkg_files, all>>
       ELSE IF ~filter_entry(n)
       THEN /\ walk' = skip_current_dir(walk, n)
            /\ UNCHANGED <<pkg_files, all>>
       ELSE /\ walk' = walk \ {n}
            /\ IF n \in Dirs
               THEN UNCHANGED <<pkg_files, all>>
               ELSE LET removed == n \in pkg_files
                    IN /\ pkg_files' = pkg_files \ {n}
                       /\ all' = IF ~removed THEN Append(all, <<"?", n>>) ELSE all
    /\ UNCHANGED <<env, pc, pkg_backup_files, par, out, result, runs, prev_out>>

\* a live scan that is left while the walk still has entries
LiveScanEnd_Early ==
    /\ pc = "live_scan"
    /\ walk' = RepoNodes
    /\ pc' = "repo_scan"
    /\ UNCHANGED <<env, pkg_files, pkg_backup_files, all, par, out, result,
                   runs, prev_out>>

\* The live walk is exhausted; the mirror walk is created.
LiveScanEnd ==
    /\ pc = "live_scan"
    /\ walk = {}
    /\ walk' = RepoNodes
    /\ pc' = "repo_scan"
    /\ UNCHANGED <<env, pkg_files, pkg_backup_files, all, par, out, result,
                   runs, prev_out>>

\* a mirror walk that drops the backup record only once both hashes are known
RepoScanEntry_RemoveLate(n) ==
    /\ pc = "repo_scan"
    /\ n \in Ready(walk)
    /\ IF n \in repo_err
       THEN /\ walk' = filter_map_error(walk, n)
            /\ UNCHANGED <<pkg_backup_files, all>>
       ELSE /\ walk' = walk \ {n}
            /\ IF n \in Dirs
               THEN UNCHANGED <<pkg_backup_files, all>>
               ELSE LET repo_hash == hash_file_logged(repo[n])
                        actual_hash == hash_file_logged(live[n])
                        failed == repo_hash = "None" \/ actual_hash = "None"
                    IN /\ pkg_backup_files' =
                              IF failed THEN pkg_backup_files
                              ELSE Remove(pkg_backup_files, n)
                       /\ all' = IF ~failed /\ repo_hash # actual_hash
                                 THEN Append(all, <<"R", n>>)
                                 ELSE all
    /\ UNCHANGED <<env, pc, pkg_files, par, out, result, runs, prev_out>>

\* One entry of the mirror walk.
RepoScanEntry(n) ==
    /\ pc = "repo_scan"
    /\ n \in Ready(walk)
    /\ IF n \in repo_err
       THEN /\ walk' = filter_map_error(walk, n)
            /\ UNCHANGED <<pkg_backup_files, all>>
       ELSE /\ walk' = walk \ {n}
            /\ IF n \in Dirs
               THEN UNCHANGED <<pkg_backup_files, all>>
               ELSE LET repo_hash == hash_file_logged(repo[n])
                        actual_hash == hash_file_logged(live[n])
                    IN /\ pkg_backup_files' = Remove(pkg_backup_files, n)
                       /\ all' = IF repo_hash = "None" THEN all
                                 ELSE IF actual_hash = "None" THEN all
                                 ELSE IF repo_hash # actual_hash
                                      THEN Append(all, <<"R", n>>)
                                      ELSE all
    /\ UNCHANGED <<env, pc, pkg_files, par, out, result, runs, prev_out>>

\* The mirror walk is exhausted; pkg_files is turned into a parallel iterator.
RepoScanEnd ==
    /\ pc = "repo_scan"
    /\ walk = {}
    /\ par' = pkg_files
    /\ pc' = "deleted"
    /\ UNCHANGED <<env, pkg_files, pkg_backup_files, all, walk, out, result,
                   runs, prev_out>>

\* a deleted check that asks the ancestor-inclusive query
DeletedCheck_AnyParents(p) ==
    /\ pc = "deleted"
    /\ p \in par
    /\ par' = par \ {p}
    /\ all' = IF matched_path_or_any_parents(p) = "Ignore" THEN all
              ELSE IF ~metadata_ok(p) THEN Append(all, <<"D", p>>)
              ELSE all
    /\ UNCHANGED <<env, pc, pkg_files, pkg_backup_files, walk, out, result,
                   runs, prev_out>>

\* a deleted check without the existence check
DeletedCheck_NoStat(p) ==
    /\ pc = "deleted"
    /\ p \in par
    /\ par' = par \ {p}
    /\ all' = IF matched(p) = "Ignore" THEN all ELSE Append(all, <<"D", p>>)
    /\ UNCHANGED <<env, pc, pkg_files, pkg_backup_files, walk, out, result,
                   runs, prev_out>>

\* The deleted check of one remaining path; the results reach all in the
\* order the set is iterated in, which is any order.
DeletedCheck(p) ==
    /\ pc = "deleted"
    /\ p \in par
    /\ par' = par \ {p}
    /\ all' = IF matched(p) = "Ignore" THEN all
              ELSE IF ~metadata_ok(p) THEN Append(all, <<"D", p>>)
              ELSE all
    /\ UNCHANGED <<env, pc, pkg_files, pkg_backup_files, walk, out, result,
                   runs, prev_out>>

\* par_extend has returned; pkg_backup_files is turned into a parallel
\* iterator.
DeletedEnd ==
    /\ pc = "deleted"
    /\ par = {}
    /\ par' = DOMAIN pkg_backup_files
    /\ pc' = "backup"
    /\ UNCHANGED <<env, pkg_files, pkg_backup_files, all, walk, out, result,
                   runs, prev_out>>

\* The backup check of one remaining (path, expected hash).
BackupCheck(p) ==
    /\ pc = "backup"
    /\ p \in par
    /\ par' = par \ {p}
    /\ LET expected_hash == pkg_backup_files[p]
           actual_hash == hash_file_logged(live[p])
       IN all' = IF matched_path_or_any_parents(p) = "Ignore" THEN all
                 ELSE IF actual_hash = "None" THEN all
                 ELSE IF expected_hash = actual_hash THEN all
                 ELSE Append(all, <<"B", p>>)
    /\ UNCHANGED <<env, pc, pkg_files, pkg_backup_files, walk, out, result,
                   runs, prev_out>>

BackupEnd ==
    /\ pc = "backup"
    /\ par = {}
    /\ pc' = "sort"
    /\ UNCHANGED <<env, pkg_files, pkg_backup_files, all, walk, par, out,
                   result, runs, prev_out>>

\* all.sort_by(...)
Sort ==
    /\ pc = "sort"
    /\ all' = sort_by(all)
    /\ pc' = "print"
    /\ UNCHANGED <<env, pkg_files, pkg_backup_files, walk, par, out, result,
                   runs, prev_out>>

\* all.iter().for_each(println!...); Ok(())
WriteLines ==
    /\ pc = "print"
    /\ out' = [i \in 1..Len(all) |-> println(all[i])]
    /\ result' = "Ok"
    /\ runs' = runs + 1
    /\ pc' = "done"
    /\ UNCHANGED <<env, pkg_files, pkg_backup_files, all, walk, par, prev_out>>

\* The program is started again on the same tree, database and rules.
Rerun ==
    /\ pc = "done"
    /\ runs < MaxRuns
    /\ prev_out' = out
    /\ pc' = "load"
    /\ UNCHANGED <<env, pkg_files, pkg_backup_files, all, walk, par, out,
                   result, runs>>

Next ==
    \/ Load
    \/ \E n \in Nodes : LiveScanEntry(n)
    \/ LiveScanEnd
    \/ \E n \in Nodes : RepoScanEntry(n)
    \/ RepoScanEnd
    \/ \E p \in Files : DeletedCheck(p)
    \/ DeletedEnd
    \/ \E p \in Files : BackupCheck(p)
    \/ BackupEnd
    \/ Sort
    \/ WriteLines
    \/ Rerun

Spec == Init /\ [][Next]_vars

----------------------------------------------------------------------------
(* Vocabulary of the properties. *)

Markers == {"?", "R", "D", "B"}

\* the entry (m, p) is in the list
Has(m, p) == \E i \in 1..Len(all) : all[i] = <<m, p>>
\* how often the entry (m, p) is in the list
Count(m, p) == Cardinality({i \in 1..Len(all) : all[i] = <<m, p>>})
\* the markers the list gives to p
MarkersOf(p) == {m \in Markers : Has(m, p)}

\* p and its containing directories
Chain(p) == {p} \cup Ancestors(p)

\* an ignore rule excludes the node itself
Excluded(n) == rules[n] = "Ignore"

\* the mirror walk produces p: p is a mirror file and no entry on the way to
\* it is an error
RepoYielded(p) == repo[p] # "absent" /\ Chain(p) \cap repo_err = {}

\* both hashes of the repo scan can be computed
BothHashable(p) == repo[p] \in Digests /\ live[p] \in Digests

AfterLiveScan == pc \in {"repo_scan", "deleted", "backup", "sort", "print", "done"}
AfterRepoScan == pc \in {"deleted", "backup", "sort", "print", "done"}
AfterDeleted == pc \in {"backup", "sort", "print", "done"}
AfterBackup == pc \in {"sort", "print", "done"}
Finished == pc = "done"

----------------------------------------------------------------------------
(* C1 *)

\* C1 as stated: after a full run no path is listed with more than one
\* marker.  Refuted: a live file no package owns that also has a differing
\* mirror copy is listed as "?" and as "R".
C1_OneMarkerPerPath ==
    Finished => \A p \in Files : Cardinality(MarkersOf(p)) <= 1

\* C1 amended: no path is listed with more than one of R, D and B, D never
\* accompanies "?", and no (marker, path) is listed twice; "?" can accompany
\* R or B.
C1_OneMarkerBesideUntracked ==
    \A p \in Files :
        /\ Cardinality(MarkersOf(p) \ {"?"}) <= 1
        /\ ~(Has("?", p) /\ Has("D", p))
        /\ \A m \in Markers : Count(m, p) <= 1

\* a finished run that lists one path as untracked and as repo-changed, and
\* another as untracked and as backup-changed
C1_Witness ==
    /\ Finished
    /\ \E p \in Files : Has("?", p) /\ Has("R", p)
    /\ \E p \in Files : Has("?", p) /\ Has("B", p)

----------------------------------------------------------------------------
(* C2 *)

\* C2: once the mirror walk has produced p, p is no key of pkg_backup_files,
\* whether or not its hashes could be computed; p is never listed as "B";
\* and no path is listed as "B" and as "R".
C2_MirrorSupersedesBackup ==
    /\ \A p \in Files :
          RepoYielded(p) /\ (AfterRepoScan \/ (pc = "repo_scan" /\ p \notin walk))
              => p \notin DOMAIN pkg_backup_files /\ ~Has("B", p)
    /\ \A p \in Files : ~(Has("B", p) /\ Has("R", p))

\* a finished run over a mirror file whose hash failed, whose live copy
\* differs from the recorded backup hash and is not ignored: no "B"
C2_Witness ==
    /\ Finished
    /\ \E p \in Files :
          /\ RepoYielded(p) /\ repo[p] = "noread"
          /\ p \in DOMAIN db_backup
          /\ live[p] \in Digests /\ live[p] # db_backup[p]
          /\ \A n \in Chain(p) : rules[n] = "None"
          /\ ~Has("B", p)

----------------------------------------------------------------------------
(* C3 *)

\* C3 as stated: every file of the mirror is listed as "R" exactly when both
\* hashes can be computed and differ.  Refuted: a mirror file below a
\* directory the walk cannot list is never hashed.
C3_EveryMirrorFile ==
    Finished =>
        \A p \in Files :
            repo[p] # "absent" =>
                (Has("R", p) <=> (BothHashable(p) /\ repo[p] # live[p]))

\* C3 amended: every file the mirror walk produces is listed as "R" exactly
\* when both hashes can be computed and differ, ignored or not.
C3_EveryYieldedMirrorFile ==
    AfterRepoScan =>
        \A p \in Files :
            RepoYielded(p) =>
                (Has("R", p) <=> (BothHashable(p) /\ repo[p] # live[p]))

\* a finished run that lists as "R" a mirror file the ignore rules exclude
C3_Witness ==
    /\ Finished
    /\ \E p \in Files :
          /\ RepoYielded(p) /\ Has("R", p)
          /\ \E n \in Chain(p) : Excluded(n)

----------------------------------------------------------------------------
(* C4 *)

\* the live walk reaches p: p is on disk and no entry on the way to it is an
\* error
LiveFound(p) == live[p] # "absent" /\ Chain(p) \cap live_err = {}

\* C4: a file the live walk finds, that the ignore rules do not exclude and
\* no package owns, is listed as "?" exactly once.  The code fails it: a
\* file matched by a negated rule is not excluded, and filter_entry drops it.
C4_UntrackedExactlyOnce ==
    AfterLiveScan =>
        \A p \in Files :
            (/\ LiveFound(p)
             /\ \A n \in Chain(p) : ~Excluded(n)
             /\ p \notin db_files)
                => Count("?", p) = 1

----------------------------------------------------------------------------
(* C5 *)

\* C5: a tracked file that is on disk, below no directory the ignore filter
\* prunes and not itself excluded has left pkg_files when the live scan ends,
\* and is not listed as "?".  The code fails it as it fails C4: a tracked
\* file matched by a negated rule stays in pkg_files.
C5_TrackedPresentIsConfirmed ==
    AfterLiveScan =>
        \A p \in db_files :
            (/\ LiveFound(p)
             /\ \A n \in Ancestors(p) : filter_entry(n)
             /\ ~Excluded(p))
                => p \notin pkg_files /\ ~Has("?", p)

----------------------------------------------------------------------------
(* C6 *)

\* C6: p is listed as "D" exactly when p is left in pkg_files by the live
\* scan, no rule excludes p itself and nothing is at root + p.  A tracked
\* file on disk is never listed as "D", hidden by pruning or not; a tracked,
\* absent, excluded path gets no entry at all.
C6_DeletedExactly ==
    AfterDeleted =>
        \A p \in Files :
            /\ Has("D", p) <=>
                  (p \in pkg_files /\ ~Excluded(p) /\ live[p] = "absent")
            /\ (p \in db_files /\ live[p] # "absent") => ~Has("D", p)
            /\ (p \in db_files /\ live[p] = "absent" /\ Excluded(p))
                  => MarkersOf(p) = {}

\* a finished run with a tracked file on disk that pruning hid from the live
\* scan and that is not listed, and a tracked absent file listed as "D"
C6_Witness ==
    /\ Finished
    /\ \E p \in pkg_files :
          /\ live[p] # "absent"
          /\ \E n \in Ancestors(p) : Excluded(n)
          /\ ~Has("D", p)
    /\ \E q \in pkg_files : Has("D", q)

----------------------------------------------------------------------------
(* C7 *)

\* the rule that decides for p: the match of p or, when p has none, of the
\* nearest containing directory that has one
NearestRule(p) ==
    LET hits == {n \in Chain(p) : rules[n] # "None"}
    IN IF hits = {} THEN "None"
       ELSE rules[CHOOSE n \in hits : \A m \in hits : m \in Chain(n)]

\* C7 as stated: p is listed as "B" exactly when p is left in
\* pkg_backup_files by the repo scan, neither p nor any containing directory
\* is excluded, the live hash is computed and differs from the recorded one.
\* Refuted: a negated rule on p overrides an excluded directory above it.
C7_NoContainingDirectoryExcluded ==
    AfterBackup =>
        \A p \in Files :
            Has("B", p) <=>
                (/\ p \in DOMAIN pkg_backup_files
                 /\ \A n \in Chain(p) : ~Excluded(n)
                 /\ live[p] \in Digests
                 /\ live[p] # pkg_backup_files[p])

\* C7 amended: p is listed as "B" exactly when p is left in pkg_backup_files
\* by the repo scan, the nearest rule matching p or a containing directory is
\* no exclusion, the live hash is computed and differs from the recorded one.
C7_BackupChangedExactly ==
    AfterBackup =>
        \A p \in Files :
            Has("B", p) <=>
                (/\ p \in DOMAIN pkg_backup_files
                 /\ NearestRule(p) # "Ignore"
                 /\ live[p] \in Digests
                 /\ live[p] # pkg_backup_files[p])

\* a finished run with a changed backup file dropped for an excluded
\* directory above it, and a changed backup file listed as "B"
C7_Witness ==
    /\ Finished
    /\ \E p \in DOMAIN pkg_backup_files :
          /\ rules[p] = "None"
          /\ \E n \in Ancestors(p) : Excluded(n)
          /\ live[p] \in Digests /\ live[p] # pkg_backup_files[p]
          /\ ~Has("B", p)
    /\ \E q \in Files : Has("B", q)

----------------------------------------------------------------------------
(* C8 *)

\* C8: a second run on the same tree, database and rules prints the lines of
\* the first, whatever order the walks and the parallel checks took.
C8_SameLinesAgain ==
    (Finished /\ runs >= 2) => out = prev_out

\* a second finished run with two results of one parallel check and a path
\* listed twice
C8_Witness ==
    /\ Finished /\ runs >= 2
    /\ \A p \in Files : Has("B", p)
    /\ \E p \in Files : Has("?", p)

----------------------------------------------------------------------------
(* C9 *)

\* what a run without traversal errors lists for p, from what the database,
\* the two trees and the rules say about p and its containing directories
Classification(p) ==
    LET found == live[p] # "absent" /\ \A n \in Chain(p) : rules[n] = "None"
        mirrored == repo[p] # "absent"
    IN  {m \in {"?"} : found /\ p \notin db_files}
        \cup {m \in {"R"} : mirrored /\ BothHashable(p) /\ repo[p] # live[p]}
        \cup {m \in {"D"} : p \in db_files /\ ~found /\ ~Excluded(p)
                                /\ live[p] = "absent"}
        \cup {m \in {"B"} : /\ p \in DOMAIN db_backup
                             /\ ~mirrored
                             /\ NearestRule(p) # "Ignore"
                             /\ live[p] \in Digests
                             /\ live[p] # db_backup[p]}

----------------------------------------------------------------------------
(* C10 *)

LexLess == {<<"d", "d/x">>, <<"d", "f">>, <<"d/x", "f">>}
SortedByPath(s) ==
    \A i, j \in 1..Len(s) : i < j => <<s[j][2], s[i][2]>> \notin LexLess
Occurrences(s, e) == Cardinality({i \in 1..Len(s) : s[i] = e})
SameEntries(s, t) ==
    /\ Len(s) = Len(t)
    /\ \A e \in Markers \X Files : Occurrences(s, e) = Occurrences(t, e)
AbsolutePath(p) ==
    CASE p = "d/x" -> "/d/x"
      [] p = "f" -> "/f"
      [] OTHER -> "/d"

\* C10: sorting keeps every entry and adds none, and leaves the list in
\* non-decreasing order of the path; printing writes one line per entry in
\* that order: the marker, a space, the installation root and the path.
C10_ReportIsCompleteAndSorted ==
    [][/\ pc = "sort" => SameEntries(all, all') /\ SortedByPath(all')
       /\ pc = "print" =>
             /\ all' = all
             /\ Len(out') = Len(all)
             /\ \A i \in 1..Len(all) :
                   /\ all[i][1] \in Markers
                   /\ out'[i] = all[i][1] \o " " \o AbsolutePath(all[i][2])]_vars

\* a finished run that printed four lines, two of them for one path
C10_Witness ==
    /\ Finished
    /\ Len(out) = 4
    /\ out[1] = "? /d/x"
    /\ out[3] = "? /f"

----------------------------------------------------------------------------
(* C11 *)

\* the live walk hands p to the closure: p is found and the filter rejects
\* neither p nor a directory above it
LiveYielded(p) == LiveFound(p) /\ \A n \in Chain(p) : rules[n] = "None"

\* the last entry of the list after a step that appended one
Pushed(m) == Len(all') = Len(all) + 1 /\ all'[Len(all')][1] = m

\* C11: when the deleted checks run the live scan has handled every entry
\* of its walk, when the backup checks run the repo scan has handled every
\* entry of its walk; pkg_files changes only while it is loaded and in the
\* live scan, pkg_backup_files only while it is loaded and in the repo scan;
\* "D" and "B" entries are pushed only in their parallel phase, and a
\* parallel phase changes nothing but the list and its own iterator.
C11_PhasesOrderedAndFrozen ==
    /\ [](pc = "deleted" =>
            (/\ pkg_files = {p \in db_files : ~LiveYielded(p)}
             /\ par \subseteq pkg_files))
    /\ [](pc = "backup" =>
            (/\ DOMAIN pkg_backup_files =
                   {p \in DOMAIN db_backup : ~RepoYielded(p)}
             /\ par \subseteq DOMAIN pkg_backup_files))
    /\ [][/\ pkg_files' # pkg_files => pc \in {"load", "live_scan"}
          /\ pkg_backup_files' # pkg_backup_files => pc \in {"load", "repo_scan"}
          /\ Pushed("D") => pc = "deleted"
          /\ Pushed("B") => pc = "backup"
          /\ pc \in {"deleted", "backup"} =>
                UNCHANGED <<env, pkg_files, pkg_backup_files, walk, out,
                            result, runs, prev_out>>]_vars

\* the deleted checks have begun after a live scan that removed a tracked
\* file and left another, and one "D" is already in the list
C11_Witness ==
    /\ pc = "deleted"
    /\ pkg_files # {} /\ pkg_files # db_files
    /\ \E p \in Files : Has("D", p)

----------------------------------------------------------------------------
(* C12 *)

\* C12: from the live scan on, a file below an excluded directory, or itself
\* excluded, is not listed as "?" and, if tracked, is still in pkg_files;
\* while the live scan runs no entry below an excluded directory is waiting
\* once the directory was handled; no entry of the list names a directory.
C12_LiveScanPrunes ==
    /\ pc # "load" =>
          \A p \in Files :
              (\E n \in Chain(p) : Excluded(n)) =>
                  /\ ~Has("?", p)
                  /\ p \in db_files => p \in pkg_files
    /\ pc = "live_scan" =>
          \A dir \in Dirs :
              (Excluded(dir) /\ dir \notin walk) => Descendants(dir) \cap walk = {}
    /\ \A i \in 1..Len(all) : all[i][2] \in Files

\* a finished run over an excluded directory holding a tracked present file,
\* beside an untracked file that is listed
C12_Witness ==
    /\ Finished
    /\ \E p \in db_files :
          /\ live[p] # "absent"
          /\ rules[p] = "None"
          /\ \E n \in Ancestors(p) : Excluded(n)
          /\ p \in pkg_files
    /\ \E q \in Files : Has("?", q)

----------------------------------------------------------------------------
(* C13 *)

\* C13: on the unchanged tree a path listed as "D" has no other entry.
C13_DeletedStandsAlone ==
    \A p \in Files : Has("D", p) => MarkersOf(p) = {"D"}

\* a finished run that lists as "D" a path with a readable mirror copy the
\* repo scan hashed, and a path with a recorded backup hash the backup check
\* looked at
C13_Witness ==
    /\ Finished
    /\ \E p \in Files : Has("D", p) /\ RepoYielded(p) /\ repo[p] \in Digests
    /\ \E q \in DOMAIN pkg_backup_files :
          Has("D", q) /\ NearestRule(q) # "Ignore"

----------------------------------------------------------------------------
(* C14 *)

\* no (marker, path) is listed twice
NoEntryTwice == \A m \in Markers : \A p \in Files : Count(m, p) <= 1

\* C14 as stated: "?" names a live file no package owns, "D" a tracked path,
\* "R" a mirror file, "B" a key of the backup map that is no mirror file, and
\* no marker lists a path twice.  Refuted: a mirror file below a directory
\* the mirror walk cannot list keeps its backup record and can be listed "B".
C14_ProvenanceByTree ==
    Finished =>
        /\ \A p \in Files :
              /\ Has("?", p) => live[p] # "absent" /\ p \notin db_files
              /\ Has("D", p) => p \in db_files
              /\ Has("R", p) => repo[p] # "absent"
              /\ Has("B", p) => p \in DOMAIN db_backup /\ repo[p] = "absent"
        /\ \A i \in 1..Len(all) : all[i][2] \in Files
        /\ NoEntryTwice

\* C14 amended: as stated, with "B" naming a key of the backup map that the
\* mirror scan did not yield.
C14_ProvenanceByScan ==
    Finished =>
        /\ \A p \in Files :
              /\ Has("?", p) => live[p] # "absent" /\ p \notin db_files
              /\ Has("D", p) => p \in db_files
              /\ Has("R", p) => repo[p] # "absent"
              /\ Has("B", p) => p \in DOMAIN db_backup /\ ~RepoYielded(p)
        /\ \A i \in 1..Len(all) : all[i][2] \in Files
        /\ NoEntryTwice

\* a finished run that lists one path as "?" and "R", and the other as "B"
\* although the mirror holds a file for it
C14_Witness ==
    /\ Finished
    /\ \E p \in Files : Has("?", p) /\ Has("R", p)
    /\ \E q \in Files : Has("B", q) /\ repo[q] # "absent"

====
